---------------------------- MODULE Spec2Model ----------------------------
(***************************************************************************)
(* A model of the stream tracker: SpotifyStreamTracker (core_tracker.py),  *)
(* the ledger tables (db_models.py) and the job that runs every active     *)
(* playlist (main.py run_tracker_job, started by the daily cron trigger    *)
(* and by force_update).                                                   *)
(***************************************************************************)
EXTENDS Integers, Sequences, FiniteSets, TLC

VARIABLES today, playlists, tracks, history, job

vars == <<today, playlists, tracks, history, job>>

---------------------------------------------------------------------------
(* Bounds of the model *)

NumPlaylists == 2
NumJobs == 2
FirstDay == 3
MaxDay == 4

Playlists == 1..NumPlaylists
Jobs == 1..NumJobs
SpotifyIds == {"a", "b"}

(* Python's None for an optional integer *)
None == -1

---------------------------------------------------------------------------
(* Program constants *)

MinReasonable == 1000
(* the two upper limits, 100,000,000,000 and 10,000,000,000, in thousands *)
TimestampLimitK == 100000000
MaxReasonableK == 10000000
FetchAttempts == 3
BrowserAttempts == 2
HistoryLimit == 7
(* confidence scores are kept in units of 1/70, so that 0.8 * n/7 = 8n/70 *)
ConfUnit == 70

---------------------------------------------------------------------------
(* Sequences as tables *)

RECURSIVE SumSeq(_)
SumSeq(s) == IF s = <<>> THEN 0 ELSE Head(s) + SumSeq(Tail(s))

RECURSIVE SeqOfSet(_)
SeqOfSet(S) ==
    IF S = {} THEN <<>>
    ELSE LET x == CHOOSE y \in S : \A z \in S : y <= z
         IN <<x>> \o SeqOfSet(S \ {x})

Truthy(n) == n # None /\ n # 0

---------------------------------------------------------------------------
(* db_models.py *)

(* Playlist(...): a new row of the playlists table *)
Playlist(is_active) ==
    [is_active |-> is_active, update_status |-> "idle",
     last_successful_update |-> None]

(* Track(...): a new row of the tracks table; its id is its position *)
Track(spotify_id, playlist_id) ==
    [spotify_id |-> spotify_id, playlist_id |-> playlist_id]

---------------------------------------------------------------------------
(* core_tracker.py: the tracker object, the parser's filter, the driver *)

(* self.driver = None *)
NoDriver == [set |-> FALSE, windows |-> {}, current |-> 0, next |-> 1, quit |-> FALSE]

(* webdriver.Chrome(...): one window, which is the current one *)
NewDriver == [set |-> TRUE, windows |-> {1}, current |-> 1, next |-> 2, quit |-> FALSE]

(* The attributes __init__ assigns.  It assigns no scrape_stats. *)
SpotifyStreamTracker == [sp |-> FALSE, driver |-> NoDriver, tracks_data |-> <<>>]

HasAttr(obj, name) == name \in DOMAIN obj

(* self.scrape_stats[key] += 1: AttributeError when the attribute is unset *)
IncStat(tr, key) ==
    IF HasAttr(tr, "scrape_stats")
    THEN [exc |-> FALSE, tr |-> [tr EXCEPT !.scrape_stats[key] = @ + 1]]
    ELSE [exc |-> TRUE, tr |-> tr]

(* A count, which may be beyond the machine integers of the checker, is    *)
(* kept as thousands and units: count = k * 1000 + u with 0 <= u < 1000.   *)
NoCount == [isNone |-> TRUE, k |-> 0, u |-> 0]
WideCount(n) ==
    IF n = None THEN NoCount ELSE [isNone |-> FALSE, k |-> n \div 1000, u |-> n % 1000]

(* c < n *)
Below(c, n) == c.k < n \div 1000 \/ (c.k = n \div 1000 /\ c.u < n % 1000)

(* a limit that rejects the limit itself *)
ExceedsOrEquals(c, limitK) == c.k >= limitK

(* c > limitK * 1000 *)
Exceeds(c, limitK) == c.k > limitK \/ (c.k = limitK /\ c.u > 0)

is_reasonable_stream_count(c) ==
    IF c.isNone \/ Below(c, MinReasonable) THEN FALSE
    ELSE IF Exceeds(c, TimestampLimitK) THEN FALSE
    ELSE IF Exceeds(c, MaxReasonableK) THEN FALSE
    ELSE TRUE

(* the characters of a text; a text is a sequence of characters *)
Digits == {"0", "1", "2", "3", "4", "5", "6", "7", "8", "9"}
DigitOf(c) ==
    CASE c = "0" -> 0 [] c = "1" -> 1 [] c = "2" -> 2 [] c = "3" -> 3 [] c = "4" -> 4
      [] c = "5" -> 5 [] c = "6" -> 6 [] c = "7" -> 7 [] c = "8" -> 8 [] c = "9" -> 9

RECURSIVE Pow10(_)
Pow10(n) == IF n = 0 THEN 1 ELSE 10 * Pow10(n - 1)

(* text.strip() *)
RECURSIVE LStrip(_)
LStrip(t) == IF t # <<>> /\ Head(t) = " " THEN LStrip(Tail(t)) ELSE t
RECURSIVE RStrip(_)
RStrip(t) == IF t # <<>> /\ t[Len(t)] = " " THEN RStrip(SubSeq(t, 1, Len(t) - 1)) ELSE t

(* .lower(), for the letters that matter *)
Lower(c) == CASE c = "K" -> "k" [] c = "M" -> "m" [] c = "B" -> "b" [] OTHER -> c

(* text.strip().replace(',', '').lower() *)
Normalize(text) ==
    LET kept == SelectSeq(RStrip(LStrip(text)), LAMBDA c : c # ",")
    IN [i \in DOMAIN kept |-> Lower(kept[i])]

IsNumeric(c) == c \in Digits \/ c = "."

(* re.search(r'([\d\.]+)\s*([kmb])?', text): the first run of digits and    *)
(* dots, as long as it goes, the whitespace after it, and the suffix if    *)
(* one follows                                                             *)
Search(t) ==
    LET starts == {i \in DOMAIN t : IsNumeric(t[i])}
        first == CHOOSE i \in starts : \A m \in starts : i <= m
        last == CHOOSE j \in first..Len(t) :
                  /\ \A m \in first..j : IsNumeric(t[m])
                  /\ j = Len(t) \/ ~IsNumeric(t[j + 1])
        after == CHOOSE k \in (last + 1)..(Len(t) + 1) :
                   /\ \A m \in (last + 1)..(k - 1) : t[m] = " "
                   /\ k = Len(t) + 1 \/ t[k] # " "
    IN IF starts = {} THEN [found |-> FALSE, number |-> <<>>, suffix |-> ""]
       ELSE [found |-> TRUE, number |-> SubSeq(t, first, last),
             suffix |-> IF after <= Len(t) /\ t[after] \in {"k", "m", "b"} THEN t[after] ELSE ""]

(* float(s) raises ValueError for a run without a digit or with two dots *)
FloatRaises(s) ==
    \/ \A i \in DOMAIN s : s[i] = "."
    \/ Cardinality({i \in DOMAIN s : s[i] = "."}) > 1

(* the digits of s as one integer, and the number of them after the dot *)
RECURSIVE DigitsValue(_)
DigitsValue(s) ==
    IF s = <<>> THEN 0
    ELSE IF s[Len(s)] = "." THEN DigitsValue(SubSeq(s, 1, Len(s) - 1))
    ELSE 10 * DigitsValue(SubSeq(s, 1, Len(s) - 1)) + DigitOf(s[Len(s)])
Decimals(s) ==
    IF \E i \in DOMAIN s : s[i] = "." THEN Len(s) - (CHOOSE i \in DOMAIN s : s[i] = ".") ELSE 0

(* number * 1_000 ... is a product of binary floating point numbers: for   *)
(* these literals it falls just below the integer it would be in decimal,  *)
(* and int() gives one less                                                *)
RoundsBelow ==
    { [number |-> <<"2", ".", "0", "1">>, suffix |-> "k"],
      [number |-> <<"3", "2", ".", "3">>, suffix |-> "k"] }

(* the count before c *)
Pred(c) == IF c.u > 0 THEN [c EXCEPT !.u = @ - 1] ELSE [c EXCEPT !.k = @ - 1, !.u = 999]

(* int(number * 10^e) for the literal with digits n and f decimals *)
Scaled(n, f, e) ==
    IF e - f >= 3 THEN [isNone |-> FALSE, k |-> n * Pow10(e - f - 3), u |-> 0]
    ELSE IF e >= f THEN WideCount(n * Pow10(e - f))
    ELSE WideCount(n \div Pow10(f - e))

(* _extract_stream_count_helper(text): [raised, count] *)
extract_stream_count_helper(text) ==
    LET m == Search(Normalize(text))
        e == CASE m.suffix = "k" -> 3 [] m.suffix = "m" -> 6 [] m.suffix = "b" -> 9
               [] OTHER -> 0
        exact == Scaled(DigitsValue(m.number), Decimals(m.number), e)
    IN IF text = <<>> THEN [raised |-> FALSE, count |-> NoCount]
       ELSE IF ~m.found THEN [raised |-> FALSE, count |-> NoCount]
       ELSE IF FloatRaises(m.number) THEN [raised |-> TRUE, count |-> NoCount]
       ELSE [raised |-> FALSE,
             count |-> IF [number |-> m.number, suffix |-> m.suffix] \in RoundsBelow
                       THEN Pred(exact) ELSE exact]

(* driver.close(): closes the current window; raises when there is none *)
CanClose(d) == d.current \in d.windows
Close(d) == IF CanClose(d) THEN [d EXCEPT !.windows = @ \ {d.current}, !.current = 0] ELSE d

(* driver.switch_to.window(h): raises when h is not an open window *)
CanSwitch(d, h) == h \in d.windows
SwitchTo(d, h) == IF CanSwitch(d, h) THEN [d EXCEPT !.current = h] ELSE d

(* the handler of a browser attempt's exception: close the current tab if  *)
(* more than one window is open, switch back; whatever raises is swallowed *)
ExceptCleanup(d, original_window) ==
    LET c == IF Cardinality(d.windows) > 1 THEN Close(d) ELSE d
    IN SwitchTo(c, original_window)

(* "Close tab and retry": close(), switch_to.window(original_window); an   *)
(* exception of either lands in the attempt's handler                      *)
CloseTabAndReturn(d, original_window) ==
    IF ~CanClose(d) THEN ExceptCleanup(d, original_window)
    ELSE IF ~CanSwitch(Close(d), original_window)
         THEN ExceptCleanup(Close(d), original_window)
         ELSE SwitchTo(Close(d), original_window)

---------------------------------------------------------------------------
(* core_tracker.py: the acquisition tiers *)

(* what the network and the browser do during one acquisition:             *)
(*   fast    the HTTP requests issued and what fetch_stream_count_requests *)
(*           returns (None: no page, no element or no number)             *)
(*   setup   setup_driver: "ok", "fail" before the driver was assigned,    *)
(*           "late" (it returns False after self.driver was assigned)      *)
(*   b1, b2  the two browser attempts: "switch" (the tab is opened and the *)
(*           switch to it raises), "error" (an exception while the page is *)
(*           loaded), "none" (no plausible number on the page),            *)
(*           "elem" / "js" (a plausible number, by element or by script)   *)
(* (without a browser the browser attempts do not happen: "none")          *)
FastOutcomes ==
    { [requests |-> FetchAttempts, value |-> None],
      [requests |-> 1, value |-> 999], [requests |-> 2, value |-> 5000] }
SetupOutcomes == {"ok", "fail", "late"}
BrowserOutcomes == {"switch", "error", "none", "elem", "js"}
Envs ==
    { e \in [fast : FastOutcomes, setup : SetupOutcomes, b1 : BrowserOutcomes, b2 : BrowserOutcomes] :
        e.setup # "ok" => (e.b1 = "none" /\ e.b2 = "none") }

NoLog == [http |-> 0, tabs |-> 0, est |-> 0, fastOk |-> FALSE, browserOk |-> FALSE]
NoValue == <<None, "none", 0>>

RECURSIVE ByDateDesc(_, _)
ByDateDesc(h, ids) ==
    IF ids = {} THEN <<>>
    ELSE LET i == CHOOSE x \in ids : \A y \in ids :
                     h[x].date > h[y].date \/ (h[x].date = h[y].date /\ x <= y)
         IN <<h[i]>> \o ByDateDesc(h, ids \ {i})

Take(s, n) == SubSeq(s, 1, IF Len(s) < n THEN Len(s) ELSE n)

(* a last entry looked up without the filter on the track *)
LastEntryAnyTrack(h, track_id) == Take(ByDateDesc(h, DOMAIN h), 1)

(* the last entry of a track: order_by(desc(date)).first() *)
LastEntry(h, track_id) == Take(ByDateDesc(h, {i \in DOMAIN h : h[i].track_id = track_id}), 1)

(* a history that takes the simulated records too *)
AnyHistory(h, track_id) == {i \in DOMAIN h : h[i].track_id = track_id}

(* filter(track_id == track_id, is_simulated == False) *)
RealHistory(h, track_id) == {i \in DOMAIN h : h[i].track_id = track_id /\ ~h[i].is_simulated}

(* returns (estimated_value, confidence); (None, 0.0) without history.     *)
(* The source averages in floating point; for the ledgers of this model    *)
(* int(last + avg * days) is the integer computed here.                    *)
(* every change counted, positive or not *)
AllChanges(changes) == changes

(* if change > 0: daily_changes.append(change) *)
PositiveChanges(changes) == SelectSeq(changes, LAMBDA c : c > 0)

estimate_streams_from_history(h, track_id, now) ==
    LET real == RealHistory(h, track_id)
        hist == Take(ByDateDesc(h, real), HistoryLimit)
    IN IF hist = <<>> THEN [value |-> None, confidence |-> 0]
       ELSE LET last_known == hist[1]
                changes == [i \in 1..(Len(hist) - 1) |->
                               hist[i].total_streams - hist[i + 1].total_streams]
                daily_changes == PositiveChanges(changes)
                days == now - last_known.date
                days_passed == IF days <= 0 THEN 1 ELSE days
            IN IF Len(hist) >= 2 /\ daily_changes # <<>>
               THEN [value |-> last_known.total_streams
                                 + (SumSeq(daily_changes) * days_passed) \div Len(daily_changes),
                     confidence |-> (8 * Len(hist) * ConfUnit) \div 70]
               ELSE [value |-> last_known.total_streams,
                     confidence |-> IF Len(hist) >= 3 THEN ConfUnit \div 2
                                    ELSE (3 * ConfUnit) \div 10]

(* the simulation tier and the complete failure that follows it: both      *)
(* count in scrape_stats before they return                                *)
SimulationTier(tr, track_id, h, now, log) ==
    LET e == estimate_streams_from_history(h, track_id, now)
        lg == [log EXCEPT !.est = @ + 1]
        key == IF Truthy(e.value) THEN "simulated" ELSE "failed"
        inc == IncStat(tr, key)
    IN IF inc.exc THEN [exc |-> TRUE, value |-> NoValue, tr |-> tr, log |-> lg]
       ELSE IF Truthy(e.value)
            THEN [exc |-> FALSE, value |-> <<e.value, "simulated", e.confidence>>,
                  tr |-> inc.tr, log |-> lg]
            ELSE [exc |-> FALSE, value |-> <<0, "failed", 0>>, tr |-> inc.tr, log |-> lg]

(* one pass of the loop "for attempt in range(2)"; ret: the function       *)
(* returned from inside the pass                                           *)
BrowserAttempt(tr, original_window, outcome) ==
    LET d0 == tr.driver
        tab == d0.next
        d1 == [d0 EXCEPT !.windows = @ \cup {tab}, !.current = tab, !.next = @ + 1]
        found == SwitchTo(Close(d1), original_window)
        inc == IncStat([tr EXCEPT !.driver = found], "selenium_success")
    IN IF d0.current \notin d0.windows
       THEN (* window.open('') raises: there is no window to run it in *)
            [ret |-> FALSE, value |-> NoValue, tabs |-> 0, ok |-> FALSE,
             tr |-> [tr EXCEPT !.driver = ExceptCleanup(d0, original_window)]]
       ELSE IF outcome = "switch"
       THEN (* the tab is open and the original window still the current one *)
            [ret |-> FALSE, value |-> NoValue, tabs |-> 1, ok |-> FALSE,
             tr |-> [tr EXCEPT !.driver = ExceptCleanup([d1 EXCEPT !.current = d0.current],
                                                        original_window)]]
       ELSE IF outcome = "error"
       THEN [ret |-> FALSE, value |-> NoValue, tabs |-> 1, ok |-> FALSE,
             tr |-> [tr EXCEPT !.driver = ExceptCleanup(d1, original_window)]]
       ELSE IF outcome = "none"
       THEN [ret |-> FALSE, value |-> NoValue, tabs |-> 1, ok |-> FALSE,
             tr |-> [tr EXCEPT !.driver = CloseTabAndReturn(d1, original_window)]]
       ELSE IF ~inc.exc
       THEN [ret |-> TRUE, value |-> <<6000, "selenium", ConfUnit>>, tabs |-> 1,
             ok |-> TRUE, tr |-> inc.tr]
       ELSE (* the tab is closed and the original window current when the   *)
            (* count raises; the handler of the element loop or of the      *)
            (* script block swallows it, and "Close tab and retry" follows  *)
            [ret |-> FALSE, value |-> NoValue, tabs |-> 1, ok |-> TRUE,
             tr |-> [tr EXCEPT !.driver = CloseTabAndReturn(found, original_window)]]

(* [exc, value = (stream_count, method_used, confidence_score), tr, log]   *)
scrape_stream_count_with_telemetry(tr, track_id, h, now, env) ==
    LET fastOk == Truthy(env.fast.value) /\ is_reasonable_stream_count(WideCount(env.fast.value))
        inc == IncStat(tr, "requests_success")
        log1 == [NoLog EXCEPT !.http = env.fast.requests, !.fastOk = fastOk]
        tr1 == IF ~tr.driver.set /\ env.setup # "fail"
               THEN [tr EXCEPT !.driver = NewDriver] ELSE tr
        original_window == tr1.driver.current
        a1 == BrowserAttempt(tr1, original_window, env.b1)
        a2 == BrowserAttempt(a1.tr, original_window, env.b2)
        log2 == [log1 EXCEPT !.tabs = a1.tabs, !.browserOk = a1.ok]
        log3 == [log1 EXCEPT !.tabs = a1.tabs + a2.tabs, !.browserOk = a1.ok \/ a2.ok]
    IN IF fastOk /\ ~inc.exc
       THEN [exc |-> FALSE, value |-> <<env.fast.value, "requests", ConfUnit>>,
             tr |-> inc.tr, log |-> log1]
       ELSE IF ~tr.driver.set /\ env.setup # "ok"
       THEN SimulationTier(tr1, track_id, h, now, log1)
       ELSE IF tr1.driver.current \notin tr1.driver.windows
       THEN (* current_window_handle raises outside every try *)
            [exc |-> TRUE, value |-> NoValue, tr |-> tr1, log |-> log1]
       ELSE IF a1.ret
       THEN [exc |-> FALSE, value |-> a1.value, tr |-> a1.tr, log |-> log2]
       ELSE IF a2.ret
       THEN [exc |-> FALSE, value |-> a2.value, tr |-> a2.tr, log |-> log3]
       ELSE SimulationTier(a2.tr, track_id, h, now, log3)

---------------------------------------------------------------------------
(* core_tracker.py: reconciliation and aggregates *)

(* aggregates whose windows start one day early *)
calculate_aggregates_wide(h, track_id, today_daily, today_date) ==
    LET InWindow(from) == {i \in DOMAIN h : /\ h[i].track_id = track_id
                                            /\ h[i].date >= from
                                            /\ h[i].date < today_date}
        SumOf(ids) == SumSeq([k \in 1..Len(SeqOfSet(ids)) |-> h[SeqOfSet(ids)[k]].daily_streams])
    IN [weekly_sum |-> SumOf(InWindow(today_date - 7)) + today_daily,
        monthly_sum |-> SumOf(InWindow(today_date - 30)) + today_daily]

(* the rows a query of this session sees: the session does not autoflush,  *)
(* so rows added and not yet committed are not among them                  *)
calculate_aggregates(h, track_id, today_daily, today_date) ==
    LET week_start == today_date - 6
        month_start == today_date - 29
        InWindow(from) == {i \in DOMAIN h : /\ h[i].track_id = track_id
                                            /\ h[i].date >= from
                                            /\ h[i].date < today_date}
        SumOf(ids) == SumSeq([k \in 1..Len(SeqOfSet(ids)) |-> h[SeqOfSet(ids)[k]].daily_streams])
    IN [weekly_sum |-> SumOf(InWindow(week_start)) + today_daily,
        monthly_sum |-> SumOf(InWindow(month_start)) + today_daily]

(* an imputed day dated one day early, as a range starting at 0 would *)
MissingHistoryEarly(missing_date, track_id, imputed_total, daily_average) ==
    [date |-> missing_date - 1, track_id |-> track_id, total_streams |-> imputed_total,
     daily_streams |-> daily_average, weekly_streams |-> 0, monthly_streams |-> 0,
     is_imputed |-> TRUE, is_new |-> FALSE, is_reset |-> FALSE, is_hidden |-> FALSE,
     is_simulated |-> FALSE, scrape_method |-> "none", confidence_score |-> None]

(* the StreamHistory(...) of an imputed day *)
MissingHistory(missing_date, track_id, imputed_total, daily_average) ==
    [date |-> missing_date, track_id |-> track_id, total_streams |-> imputed_total,
     daily_streams |-> daily_average, weekly_streams |-> 0, monthly_streams |-> 0,
     is_imputed |-> TRUE, is_new |-> FALSE, is_reset |-> FALSE, is_hidden |-> FALSE,
     is_simulated |-> FALSE, scrape_method |-> "none", confidence_score |-> None]

(* a gap counted from the day before the last entry *)
DaysGapInclusive(today_date, last_date) == today_date - last_date + 1

(* days_gap = (today_date - last_entry.date).days *)
DaysGap(today_date, last_date) == today_date - last_date

(* an average over the days between the two records *)
DailyAverageBetween(raw_diff, days_gap) == raw_diff \div (days_gap - 1)

(* daily_average = int(raw_diff / days_gap), for raw_diff >= 0 *)
DailyAverage(raw_diff, days_gap) == raw_diff \div days_gap

(* a hidden count that is stored as it came *)
KnownTotalRaw(scraped, last) == scraped

(* if is_hidden and last_entry: total_streams = last_entry.total_streams *)
KnownTotal(scraped, last) ==
    IF scraped = 0 /\ last # <<>> THEN last[1].total_streams ELSE scraped

(* an imputation that does not look at the sign of the difference *)
IsImputedAnyDiff(days_gap, raw_diff) == days_gap > 1

(* the branch that imputes: days_gap > 1 and not raw_diff < 0 *)
IsImputedGap(days_gap, raw_diff) == days_gap > 1 /\ raw_diff >= 0

(* a count of 0 that is not taken for hidden *)
IsHiddenNever(scraped) == FALSE

(* is_hidden = (total_streams == 0) *)
IsHiddenCount(scraped) == scraped = 0

(* a confidence that is stored whatever the method *)
StoredConfidenceAlways(is_simulated, confidence) == confidence

(* confidence_score = confidence if is_simulated else None *)
StoredConfidence(is_simulated, confidence) == IF is_simulated THEN confidence ELSE None

(* the classification of today's observation and the rows it adds to the   *)
(* session: [missing: the imputed rows, new_history: today's row]          *)
Reconcile(h, track_id, value, today_date) ==
    LET scraped == value[1]
        scrape_method == value[2]
        confidence == value[3]
        last == LastEntry(h, track_id)
        last_entry == last[1]
        is_hidden == IsHiddenCount(scraped)
        is_simulated == (scrape_method = "simulated")
        total_streams == KnownTotal(scraped, last)
        days_gap == DaysGap(today_date, last_entry.date)
        raw_diff == total_streams - last_entry.total_streams
        daily_average == DailyAverage(raw_diff, days_gap)
        is_new == (last = <<>>)
        is_reset == /\ last # <<>>
                    /\ IF days_gap > 1 THEN raw_diff < 0
                       ELSE total_streams < last_entry.total_streams
        is_imputed == last # <<>> /\ IsImputedGap(days_gap, raw_diff)
        daily_diff == IF is_new \/ is_reset THEN 0
                      ELSE IF is_imputed THEN daily_average
                      ELSE total_streams - last_entry.total_streams
        missing == IF is_imputed
                   THEN [i \in 1..(days_gap - 1) |->
                           MissingHistory(last_entry.date + i, track_id,
                                          last_entry.total_streams + daily_average * i,
                                          daily_average)]
                   ELSE <<>>
        agg == calculate_aggregates(h, track_id, daily_diff, today_date)
    IN [missing |-> missing,
        new_history |->
          [date |-> today_date, track_id |-> track_id, total_streams |-> total_streams,
           daily_streams |-> daily_diff, weekly_streams |-> agg.weekly_sum,
           monthly_streams |-> agg.monthly_sum, is_imputed |-> is_imputed,
           is_new |-> is_new, is_reset |-> is_reset, is_hidden |-> is_hidden,
           is_simulated |-> is_simulated, scrape_method |-> scrape_method,
           confidence_score |-> StoredConfidence(is_simulated, confidence)]]

(* a run that writes today's row over the last row of the ledger *)
RecordRowsOverLast(h, track_id, value, today_date) ==
    LET rec == Reconcile(h, track_id, value, today_date)
    IN IF h = <<>> THEN <<rec.new_history>>
       ELSE [h EXCEPT ![Len(h)] = rec.new_history]

(* db.add(missing_history) ..., db.add(new_history), db.commit(): the       *)
(* ledger with the rows of today's observation                             *)
RecordRows(h, track_id, value, today_date) ==
    LET rec == Reconcile(h, track_id, value, today_date)
    IN h \o rec.missing \o <<rec.new_history>>

(* the values scrape_stream_count_with_telemetry has a return for:         *)
(* (count, "requests" | "selenium", 1.0) with a plausible count,           *)
(* (estimate, "simulated", confidence) and (0, "failed", 0.0)              *)
AcquiredValues ==
    { <<0, "failed", 0>>, <<5000, "requests", ConfUnit>>, <<6001, "selenium", ConfUnit>>,
      <<7000, "simulated", (3 * ConfUnit) \div 10>>, <<40000, "requests", ConfUnit>> }

---------------------------------------------------------------------------
(* The state.  today: date.today().  playlists, tracks, history: the       *)
(* committed tables.  job[j]: one execution of run_tracker_job (the daily  *)
(* cron job, a job added by force_update), with the locals of the          *)
(* run_and_save it is in; ran and last record what it did.                 *)

IdleJob ==
    [pc |-> "idle", queue |-> <<>>, snapshot |-> {}, ran |-> {}, playlist |-> 0,
     api_tracks |-> <<>>, idx |-> 0, today_date |-> 0, tracker |-> SpotifyStreamTracker,
     db_track |-> 0, last |-> "none", value |-> NoValue,
     text |-> <<>>, streams |-> NoCount, plausible |-> FALSE]

(* the track lists fetch_tracks_api may return; <<>> also stands for a     *)
(* failed fetch, which returns []                                          *)
TrackLists == {<<>>, <<"a">>, <<"a", "b">>, <<"a", "a">>}

(* a row written by an earlier deployment, before the scraping columns     *)
PriorRow(d, total) ==
    [date |-> d, track_id |-> 1, total_streams |-> total, daily_streams |-> 0,
     weekly_streams |-> 0, monthly_streams |-> 0, is_imputed |-> FALSE, is_new |-> FALSE,
     is_reset |-> FALSE, is_hidden |-> FALSE, is_simulated |-> FALSE,
     scrape_method |-> "none", confidence_score |-> None]

(* ledgers of track 1 found at start-up: one row per date at most *)
PriorLedgers ==
    { [k \in 1..Len(SeqOfSet(D)) |-> PriorRow(SeqOfSet(D)[k], 2000 + up * 1000 * SeqOfSet(D)[k])] :
        D \in {{}, {FirstDay}, {FirstDay - 1}, {FirstDay - 2, FirstDay - 1}}, up \in {1} }

Init ==
    /\ today = FirstDay
    /\ playlists \in {[p \in Playlists |-> Playlist(p = 1 \/ b)] : b \in BOOLEAN}
    /\ tracks = <<Track("a", 1), Track("a", 2)>>
    /\ history \in PriorLedgers
    /\ job = [j \in Jobs |-> IdleJob]

(* finally: if self.driver: self.driver.quit() *)
QuitDriver(tr) ==
    IF tr.driver.set
    THEN [tr EXCEPT !.driver = [NoDriver EXCEPT !.set = TRUE, !.quit = TRUE]]
    ELSE tr

(* a run_tracker_job whose loop ends at the first playlist that fails *)
OnRunExceptionAbort(jb) == [jb EXCEPT !.pc = "playlists", !.queue = <<>>]

(* run_tracker_job, "except Exception" around run_and_save: the failure is *)
(* logged and the loop goes on with the next playlist                      *)
OnRunException(jb) == [jb EXCEPT !.pc = "playlists", !.queue = Tail(@)]

(* run_tracker_job after run_and_save returned *)
OnRunReturn(jb) == [jb EXCEPT !.pc = "playlists", !.queue = Tail(@)]

(* run_and_save, "except Exception": the playlist is marked failed, the    *)
(* session committed and the exception raised again                        *)
MarkFailed(pl, p) == [pl EXCEPT ![p].update_status = "failed"]

(* the lookup without the filter on the playlist *)
FindTrackAnyPlaylist(t, spotify_id, playlist_id) ==
    LET ids == {i \in DOMAIN t : t[i].spotify_id = spotify_id}
    IN IF ids = {} THEN 0 ELSE CHOOSE i \in ids : \A k \in ids : i <= k

(* db.query(Track).filter(spotify_id, playlist_id).first(): 0 for None *)
FindTrack(t, spotify_id, playlist_id) ==
    LET ids == {i \in DOMAIN t : t[i].spotify_id = spotify_id /\ t[i].playlist_id = playlist_id}
    IN IF ids = {} THEN 0 ELSE CHOOSE i \in ids : \A k \in ids : i <= k

(* an existence check that looks at the day before *)
existing_yesterday(h, track_id, today_date) ==
    \E i \in DOMAIN h : h[i].track_id = track_id /\ h[i].date = today_date - 1

(* db.query(StreamHistory).filter(track_id, date == today_date).first() is not None *)
existing_today(h, track_id, today_date) ==
    \E i \in DOMAIN h : h[i].track_id = track_id /\ h[i].date = today_date

---------------------------------------------------------------------------
(* Actions *)

(* the scheduler starts run_tracker_job: the active playlists are listed *)
StartJob(j) ==
    /\ job[j].pc = "idle"
    /\ LET active == {p \in Playlists : playlists[p].is_active}
       IN job' = [job EXCEPT ![j] = [IdleJob EXCEPT !.pc = "playlists",
                                        !.queue = SeqOfSet(active), !.snapshot = active]]
    /\ UNCHANGED <<today, playlists, tracks, history>>

(* run_and_save up to the loop over the tracks *)
BeginRun(j) ==
    /\ job[j].pc = "playlists"
    /\ job[j].queue # <<>>
    /\ LET p == Head(job[j].queue)
           jb == [job[j] EXCEPT !.playlist = p, !.ran = @ \cup {p}, !.tracker = SpotifyStreamTracker,
                                !.api_tracks = <<>>, !.idx = 0, !.db_track = 0]
       IN \E spotipy_ok \in BOOLEAN, api_tracks \in TrackLists :
            IF ~spotipy_ok
            THEN /\ playlists' = MarkFailed(playlists, p)
                 /\ job' = [job EXCEPT ![j] = OnRunException([jb EXCEPT !.last = "spotipy_failed"])]
            ELSE IF api_tracks = <<>>
            THEN /\ playlists' = MarkFailed([playlists EXCEPT ![p].update_status = "failed"], p)
                 /\ job' = [job EXCEPT ![j] = OnRunException([jb EXCEPT !.last = "list_failed"])]
            ELSE /\ playlists' = [playlists EXCEPT ![p].update_status = "updating"]
                 /\ job' = [job EXCEPT ![j] = [jb EXCEPT !.pc = "track", !.api_tracks = api_tracks,
                                                  !.idx = 1, !.today_date = today,
                                                  !.tracker = [@ EXCEPT !.sp = TRUE],
                                                  !.last = "started"]]
    /\ UNCHANGED <<today, tracks, history>>

(* the head of the loop body: the Track row is found or created and        *)
(* committed, then today's record is looked for                            *)
CheckTrack(j) ==
    /\ job[j].pc = "track"
    /\ job[j].idx <= Len(job[j].api_tracks)
    /\ LET t_data == job[j].api_tracks[job[j].idx]
           found == FindTrack(tracks, t_data, job[j].playlist)
           db_track == IF found = 0 THEN Len(tracks) + 1 ELSE found
       IN /\ tracks' = IF found = 0 THEN Append(tracks, Track(t_data, job[j].playlist)) ELSE tracks
          /\ IF existing_today(history, db_track, job[j].today_date)
             THEN job' = [job EXCEPT ![j].idx = @ + 1, ![j].db_track = db_track,
                                     ![j].last = "skipped"]
             ELSE job' = [job EXCEPT ![j].pc = "acquire", ![j].db_track = db_track,
                                     ![j].last = "checked"]
    /\ UNCHANGED <<today, playlists, history>>

(* the rest of the loop body: acquisition, reconciliation, aggregates and  *)
(* the commit; an exception of any of them leaves the loop                 *)
ProcessTrack(j) ==
    /\ job[j].pc = "acquire"
    /\ \E env \in Envs :
         LET r == scrape_stream_count_with_telemetry(job[j].tracker, job[j].db_track,
                                                     history, today, env)
         IN IF r.exc
            THEN /\ playlists' = MarkFailed(playlists, job[j].playlist)
                 /\ history' = history
                 /\ job' = [job EXCEPT ![j] = OnRunException([job[j] EXCEPT
                                                 !.tracker = QuitDriver(r.tr),
                                                 !.last = "raised"])]
            ELSE /\ playlists' = playlists
                 /\ history' = RecordRows(history, job[j].db_track, r.value, job[j].today_date)
                 /\ job' = [job EXCEPT ![j].pc = "track", ![j].idx = @ + 1,
                                       ![j].tracker = r.tr, ![j].value = r.value,
                                       ![j].last = "recorded"]
    /\ UNCHANGED <<today, tracks>>

(* after the loop: the playlist is marked completed and committed, then    *)
(* the statistics are printed from self.scrape_stats                       *)
FinishRun(j) ==
    /\ job[j].pc = "track"
    /\ job[j].idx > Len(job[j].api_tracks)
    /\ LET p == job[j].playlist
           done == [playlists EXCEPT ![p].update_status = "completed",
                                     ![p].last_successful_update = today]
       IN IF HasAttr(job[j].tracker, "scrape_stats")
          THEN /\ playlists' = done
               /\ job' = [job EXCEPT ![j] = OnRunReturn([job[j] EXCEPT
                                               !.tracker = QuitDriver(@), !.last = "returned"])]
          ELSE /\ playlists' = MarkFailed(done, p)
               /\ job' = [job EXCEPT ![j] = OnRunException([job[j] EXCEPT
                                               !.tracker = QuitDriver(@), !.last = "print_raised"])]
    /\ UNCHANGED <<today, tracks, history>>

(* run_tracker_job after its last playlist *)
EndJob(j) ==
    /\ job[j].pc = "playlists"
    /\ job[j].queue = <<>>
    /\ job' = [job EXCEPT ![j] = IdleJob]
    /\ UNCHANGED <<today, playlists, tracks, history>>

(* midnight *)
NextDay ==
    /\ today < MaxDay
    /\ today' = today + 1
    /\ UNCHANGED <<playlists, tracks, history, job>>

Next ==
    \/ \E j \in Jobs : StartJob(j)
    \/ \E j \in Jobs : BeginRun(j)
    \/ \E j \in Jobs : CheckTrack(j)
    \/ \E j \in Jobs : ProcessTrack(j)
    \/ \E j \in Jobs : FinishRun(j)
    \/ \E j \in Jobs : EndJob(j)
    \/ NextDay

Spec == Init /\ [][Next]_vars

---------------------------------------------------------------------------
(* Reconciliation on its own: runs that are in their loop over the tracks  *)
(* of playlist 1, a ledger left by earlier deployments, and an acquisition *)
(* that returns one of the values it has a return for.                     *)

StoredRow(track_id, d, total, daily) ==
    [date |-> d, track_id |-> track_id, total_streams |-> total, daily_streams |-> daily,
     weekly_streams |-> 0, monthly_streams |-> 0, is_imputed |-> FALSE, is_new |-> FALSE,
     is_reset |-> FALSE, is_hidden |-> FALSE, is_simulated |-> FALSE,
     scrape_method |-> "none", confidence_score |-> None]

(* k consecutive days of track 1 that end gap days before FirstDay, with   *)
(* or without a row of track 2                                             *)
StoredLedger(k, gap, other) ==
    [i \in 1..k |-> StoredRow(1, FirstDay - gap - (k - i), 2000 + 1000 * i, 1000)]
      \o (IF other THEN <<StoredRow(2, FirstDay - 1, 9000, 7)>> ELSE <<>>)

StoredLedgers ==
    { StoredLedger(k, gap, other) :
        k \in {0, 1, 3, 6, 7, 29, 30}, gap \in {1, 2, 3}, other \in BOOLEAN }

RunningJob ==
    [IdleJob EXCEPT !.pc = "track", !.queue = <<1>>, !.snapshot = {1}, !.ran = {1},
                    !.playlist = 1, !.api_tracks = <<"a">>, !.idx = 1,
                    !.today_date = FirstDay, !.tracker = [@ EXCEPT !.sp = TRUE],
                    !.last = "started"]

InitReconcile ==
    /\ today = FirstDay
    /\ playlists = [p \in Playlists |->
                      [Playlist(TRUE) EXCEPT !.update_status = IF p = 1 THEN "updating" ELSE "idle"]]
    /\ tracks = <<Track("a", 1), Track("a", 2)>>
    /\ history \in StoredLedgers
    /\ job = [j \in Jobs |-> RunningJob]

(* the loop body after the acquisition returned: last entry, classification, *)
(* imputed rows, aggregates, today's row, commit                             *)
RecordValue(j, v) ==
    /\ job[j].pc = "acquire"
    /\ history' = RecordRows(history, job[j].db_track, v, job[j].today_date)
    /\ job' = [job EXCEPT ![j].pc = "track", ![j].idx = @ + 1, ![j].value = v,
                          ![j].last = "recorded"]
    /\ UNCHANGED <<today, playlists, tracks>>

RecordTrack(j) == \E v \in AcquiredValues : RecordValue(j, v)

NextReconcile ==
    \/ \E j \in Jobs : CheckTrack(j)
    \/ \E j \in Jobs : RecordTrack(j)

SpecReconcile == InitReconcile /\ [][NextReconcile]_vars

---------------------------------------------------------------------------
(* The historical estimate on its own: ledgers with rising, flat and       *)
(* falling totals, with more records than the estimate reads, with a       *)
(* simulated record and with a record dated after today.                   *)

(* the totals of the stored days of track 1, oldest first *)
StoredTotals ==
    UNION {[1..n -> {1000, 1004, 1011}] : n \in 0..3}
      \cup { <<900, 1000, 1001, 1003, 1006, 1010, 1015, 1021, 1028>>,
             <<500, 1000, 1007, 1003, 1020, 1020, 1031, 1041>> }

(* the days of totals end the day before FirstDay; sim: a simulated record *)
(* of FirstDay with another total; other: a record of track 2              *)
EstimateLedger(totals, sim, other) ==
    [i \in 1..Len(totals) |-> StoredRow(1, FirstDay - 1 - (Len(totals) - i), totals[i], 0)]
      \o (IF sim THEN <<[StoredRow(1, FirstDay, 9000, 0) EXCEPT
                           !.is_simulated = TRUE, !.scrape_method = "simulated",
                           !.confidence_score = ConfUnit \div 2]>> ELSE <<>>)
      \o (IF other THEN <<StoredRow(2, FirstDay - 1, 7000, 7)>> ELSE <<>>)

EstimateLedgers ==
    { EstimateLedger(totals, sim, other) :
        totals \in StoredTotals, sim \in BOOLEAN, other \in BOOLEAN }

(* job j is at the acquisition of track j *)
InitEstimate ==
    /\ today \in (FirstDay - 2)..(FirstDay + 2)
    /\ playlists = [p \in Playlists |-> [Playlist(TRUE) EXCEPT !.update_status = "updating"]]
    /\ tracks = <<Track("a", 1), Track("a", 2)>>
    /\ history \in EstimateLedgers
    /\ job = [j \in Jobs |-> [RunningJob EXCEPT !.pc = "acquire", !.playlist = j,
                                                !.db_track = IF j = 1 THEN 1 ELSE 2,
                                                !.last = "checked"]]

(* estimated, confidence = self.estimate_streams_from_history(track_id, db) *)
EstimateTrack(j) ==
    /\ job[j].pc = "acquire"
    /\ LET e == estimate_streams_from_history(history, job[j].db_track, today)
       IN job' = [job EXCEPT ![j].pc = "estimated", ![j].last = "estimated",
                             ![j].value = <<e.value, "estimate", e.confidence>>]
    /\ UNCHANGED <<today, playlists, tracks, history>>

NextEstimate == \E j \in Jobs : EstimateTrack(j)

SpecEstimate == InitEstimate /\ [][NextEstimate]_vars

---------------------------------------------------------------------------
(* The parser and its filter on their own: a text read from the page is    *)
(* parsed, and a count is judged.                                          *)

MaxTextLen == 3

Chars == {"1", "2", ".", ",", " ", "k", "M", "x"}

(* "1.2M", "123K", "45,000", "2.01K", "1.5B", "32.3k", "1.2.3", "v. 2",     *)
(* "12.7"                                                                  *)
ExampleTexts ==
    { <<"1", ".", "2", "M">>, <<"1", "2", "3", "K">>, <<"4", "5", ",", "0", "0", "0">>,
      <<"2", ".", "0", "1", "K">>, <<"1", ".", "5", "B">>, <<"3", "2", ".", "3", "k">>,
      <<"1", ".", "2", ".", "3">>, <<"v", ".", " ", "2">>, <<"1", "2", ".", "7">> }

Texts == UNION {[1..n -> Chars] : n \in 0..MaxTextLen} \cup ExampleTexts

(* None, -1, 0, 1, 999, 1000, 1001, 5000, 9,999,999,999, 10,000,000,000,   *)
(* 10,000,000,001, 100,000,000,000, 100,000,000,001, 200,000,000,000       *)
Counts ==
    { NoCount, [isNone |-> FALSE, k |-> -1, u |-> 999] }
      \cup { WideCount(n) : n \in {0, 1, 999, 1000, 1001, 5000} }
      \cup { [isNone |-> FALSE, k |-> MaxReasonableK - 1, u |-> 999],
             [isNone |-> FALSE, k |-> MaxReasonableK, u |-> 0],
             [isNone |-> FALSE, k |-> MaxReasonableK, u |-> 1],
             [isNone |-> FALSE, k |-> TimestampLimitK, u |-> 0],
             [isNone |-> FALSE, k |-> TimestampLimitK, u |-> 1],
             [isNone |-> FALSE, k |-> 2 * TimestampLimitK, u |-> 0] }

(* job 1 has a text of the page to parse, or a count to judge *)
InitParse ==
    /\ today = FirstDay
    /\ playlists = [p \in Playlists |-> [Playlist(TRUE) EXCEPT !.update_status = "updating"]]
    /\ tracks = <<Track("a", 1), Track("a", 2)>>
    /\ history = <<>>
    /\ \/ \E t \in Texts :
            job = [j \in Jobs |-> IF j = 1 THEN [RunningJob EXCEPT !.pc = "text", !.text = t]
                                  ELSE IdleJob]
       \/ \E c \in Counts :
            job = [j \in Jobs |-> IF j = 1 THEN [RunningJob EXCEPT !.pc = "count", !.streams = c]
                                  ELSE IdleJob]

(* streams = self._extract_stream_count_helper(text) *)
ExtractCount(j) ==
    /\ job[j].pc = "text"
    /\ LET r == extract_stream_count_helper(job[j].text)
       IN job' = [job EXCEPT ![j].pc = IF r.raised THEN "raised" ELSE "count",
                             ![j].streams = r.count, ![j].last = "parsed"]
    /\ UNCHANGED <<today, playlists, tracks, history>>

(* self._is_reasonable_stream_count(streams) *)
JudgeCount(j) ==
    /\ job[j].pc = "count"
    /\ job' = [job EXCEPT ![j].pc = "judged",
                          ![j].plausible = is_reasonable_stream_count(job[j].streams)]
    /\ UNCHANGED <<today, playlists, tracks, history>>

NextParse ==
    \/ \E j \in Jobs : ExtractCount(j)
    \/ \E j \in Jobs : JudgeCount(j)

SpecParse == InitParse /\ [][NextParse]_vars

---------------------------------------------------------------------------
(* The ledger under runs and deletions: the runs of the reconciliation and *)
(* the request that deletes a playlist (main.py delete_playlist).  A       *)
(* deleted row leaves a marker, so that the ids of the other rows stay.    *)

DeletedPlaylist == [is_active |-> FALSE, update_status |-> "deleted", last_successful_update |-> None]
DeletedTrack == [spotify_id |-> "", playlist_id |-> 0]

Exists(p) == playlists[p] # DeletedPlaylist

(* cascade="all, delete-orphan" of Playlist.tracks and Track.stream_history *)
CascadeTracks(t, p) == [i \in DOMAIN t |-> IF t[i].playlist_id = p THEN DeletedTrack ELSE t[i]]
CascadeHistory(h, t, p) == SelectSeq(h, LAMBDA r : t[r.track_id].playlist_id # p)

(* DELETE /api/playlists/{playlist_id}: 404 when there is no such playlist *)
DeletePlaylist(p) ==
    /\ Exists(p)
    /\ playlists' = [playlists EXCEPT ![p] = DeletedPlaylist]
    /\ tracks' = CascadeTracks(tracks, p)
    /\ history' = CascadeHistory(history, tracks, p)
    /\ UNCHANGED <<today, job>>

(* a run whose playlist was deleted under it: its session raises at the    *)
(* next statement that reloads the playlist or checks the foreign keys     *)
(* (where the database and the session state let it go on, CheckTrack and  *)
(* RecordTrack are its steps as before)                                    *)
RunOnDeletedRaises(j) ==
    /\ job[j].pc \in {"track", "acquire"}
    /\ ~Exists(job[j].playlist)
    /\ job' = [job EXCEPT ![j] = OnRunException([job[j] EXCEPT !.last = "raised"])]
    /\ UNCHANGED <<today, playlists, tracks, history>>

NextLedger ==
    \/ \E j \in Jobs : CheckTrack(j)
    \/ \E j \in Jobs : RecordTrack(j)
    \/ \E j \in Jobs : RunOnDeletedRaises(j)
    \/ \E p \in Playlists : DeletePlaylist(p)

SpecLedger == InitReconcile /\ [][NextLedger]_vars

---------------------------------------------------------------------------
(* Runs one after another: two jobs that go through the playlists in       *)
(* opposite orders, no run beginning while another is in progress, a       *)
(* database that knows no track or one, and an acquisition that returns a  *)
(* plausible count or (0, "failed", 0.0).                                  *)

SerialValues == {<<0, "failed", 0>>, <<5000, "requests", ConfUnit>>}

(* the job has listed the playlists and is about to run the first *)
ListedJob(queue) ==
    [IdleJob EXCEPT !.pc = "playlists", !.queue = queue, !.snapshot = Playlists]

InitSerial ==
    /\ today = FirstDay
    /\ playlists = [p \in Playlists |-> Playlist(TRUE)]
    /\ \E known \in BOOLEAN :
         /\ tracks = IF known THEN <<Track("a", 1)>> ELSE <<>>
         /\ history \in IF known THEN {<<>>, <<StoredRow(1, FirstDay - 1, 3000, 1000)>>}
                        ELSE {<<>>}
    /\ job = [j \in Jobs |-> ListedJob(IF j = 1 THEN <<1, 2>> ELSE <<2, 1>>)]

(* a run that begins when no other job is inside run_and_save *)
BeginRunAlone(j) ==
    /\ \A k \in Jobs \ {j} : job[k].pc \in {"idle", "playlists"}
    /\ BeginRun(j)

NextSerial ==
    \/ \E j \in Jobs : BeginRunAlone(j)
    \/ \E j \in Jobs : CheckTrack(j)
    \/ \E j \in Jobs, v \in SerialValues : RecordValue(j, v)
    \/ \E j \in Jobs : FinishRun(j)
    \/ NextDay

SpecSerial == InitSerial /\ [][NextSerial]_vars

---------------------------------------------------------------------------
(* Properties *)

(* what the acquisition of job j's current track does under env *)
Acquire(j, env) ==
    scrape_stream_count_with_telemetry(job[j].tracker, job[j].db_track, history, today, env)

FastPlausible(env) == env.fast.value # None /\ env.fast.value >= 1000

(* job j takes a step of its own *)
Steps(j) == job'[j] # job[j]

(* the Track row of the track job j is about to look at has a record dated *)
(* with the run's date                                                     *)
RecordedToday(j) ==
    \E t \in DOMAIN tracks :
      /\ tracks[t].spotify_id = job[j].api_tracks[job[j].idx]
      /\ tracks[t].playlist_id = job[j].playlist
      /\ \A u \in DOMAIN tracks :
           (tracks[u].spotify_id = tracks[t].spotify_id /\ tracks[u].playlist_id = job[j].playlist)
             => t <= u
      /\ \E i \in DOMAIN history :
           history[i].track_id = t /\ history[i].date = job[j].today_date

(* no two rows of h have the same (track, date) *)
RowKeysUnique(h) ==
    \A i, k \in DOMAIN h :
      (h[i].track_id = h[k].track_id /\ h[i].date = h[k].date) => i = k

(* no other job is inside a run_and_save *)
Alone(j) == \A k \in Jobs \ {j} : job[k].pc \in {"idle", "playlists"}

(* the ledger after job j's run has added the rows of its current track *)
LedgerWith(j, v) == RecordRows(history, job[j].db_track, v, job[j].today_date)

(* C1: with runs that do not overlap, the ledger never holds two records   *)
(* for the same (track, date), imputed records included: the ledger has    *)
(* one row per (track, date), and when a run is at the point where it adds *)
(* a track's rows, the ledger with the imputed rows and today's row added  *)
(* still has one row per (track, date), whatever count was acquired.  (A   *)
(* track that has today's record never gets there: today's row would be a  *)
(* second one.)                                                            *)
C1_OneRecordPerTrackDate ==
    /\ RowKeysUnique(history)
    /\ \A j \in Jobs : (job[j].pc = "acquire" /\ Alone(j)) =>
         \A v \in AcquiredValues : RowKeysUnique(LedgerWith(j, v))

(* a run, alone, is about to add a track's rows, imputed rows among them,  *)
(* to a ledger that has records of the track                               *)
C1_Witness ==
    \E j \in Jobs :
      /\ job[j].pc = "acquire" /\ Alone(j)
      /\ \E v \in AcquiredValues : Len(LedgerWith(j, v)) > Len(history) + 1

(* C2: two overlapping runs never both find that no record exists for the  *)
(* same (track, today) and then both append: the existence check and the   *)
(* append are atomic, so no run passes the check for a track and date      *)
(* while another run is between its check and its append for them.         *)
C2_CheckAndAppendAtomic ==
    \A j1, j2 \in Jobs :
      ~(/\ j1 # j2
        /\ job[j1].pc = "acquire" /\ job[j2].pc = "acquire"
        /\ job[j1].db_track = job[j2].db_track
        /\ job[j1].today_date = job[j2].today_date)

(* C3: for a track that already has a record dated today, run_and_save     *)
(* goes on to the next track: it does not enter acquisition for it, and    *)
(* its tracker (driver, counters) and the ledger stay as they are.         *)
C3_SkipBeforeAcquisition ==
    [][\A j \in Jobs :
         (/\ job[j].pc = "track"
          /\ job[j].idx <= Len(job[j].api_tracks)
          /\ RecordedToday(j)
          /\ Steps(j))
         => /\ job'[j].pc = "track"
            /\ job'[j].idx = job[j].idx + 1
            /\ job'[j].tracker = job[j].tracker
            /\ history' = history]_vars

(* a run has just skipped a track that has today's record *)
C3_Witness ==
    \E j \in Jobs :
      /\ job[j].last = "skipped"
      /\ \E i \in DOMAIN history :
           history[i].track_id = job[j].db_track /\ history[i].date = job[j].today_date

(* C4: as soon as a tier yields a plausible count the pipeline returns it  *)
(* with that tier's method: after a plausible Fast Fetch no browser tab is *)
(* opened and no estimate made; after a plausible Browser Fetch no         *)
(* estimate is made.                                                       *)
C4_StopsAtFirstPlausibleTier ==
    \A j \in Jobs : job[j].pc = "acquire" =>
      \A env \in Envs :
        LET r == Acquire(j, env)
        IN /\ FastPlausible(env) =>
                /\ ~r.exc
                /\ r.value[1] = env.fast.value /\ r.value[2] = "requests"
                /\ r.log.tabs = 0 /\ r.log.est = 0
           /\ (~FastPlausible(env) /\ r.log.browserOk) =>
                /\ ~r.exc
                /\ r.value[2] = "selenium"
                /\ r.log.est = 0

(* C5: when Fast Fetch and Browser Fetch fail and the track has no ledger  *)
(* history, the pipeline returns (0, "failed", 0.0) and does not raise.    *)
C5_FailedIsReturned ==
    \A j \in Jobs : job[j].pc = "acquire" =>
      \A env \in Envs :
        LET r == Acquire(j, env)
        IN (/\ ~FastPlausible(env)
            /\ ~r.log.browserOk
            /\ \A i \in DOMAIN history : history[i].track_id # job[j].db_track)
           => (~r.exc /\ r.value = <<0, "failed", 0>>)

(* C6: no failure inside a tier leaves the pipeline as an exception: when  *)
(* Fast Fetch fails or is implausible, the pipeline still returns a value. *)
C6_TierFailureNeverRaises ==
    \A j \in Jobs : job[j].pc = "acquire" =>
      \A env \in Envs : ~FastPlausible(env) => ~Acquire(j, env).exc

(* C7: when processing one track raises, the run goes on with the          *)
(* remaining tracks of the playlist.                                       *)
C7_TrackFailureIsContained ==
    \A j \in Jobs : job[j].last = "raised" => job[j].pc = "track"

(* C8: when the track list of a playlist cannot be fetched or is empty,    *)
(* the run writes no ledger record and no track, leaves that playlist      *)
(* failed and every other playlist row as it was, and the job goes on with *)
(* the playlists that remain; a job ends only after run_and_save was       *)
(* called for every playlist it listed.                                    *)
C8_ListFailureIsolated ==
    [][\A j \in Jobs :
         /\ (job[j].pc = "playlists" /\ Steps(j) /\ job'[j].last = "list_failed")
            => LET p == Head(job[j].queue)
               IN /\ history' = history
                  /\ tracks' = tracks
                  /\ playlists'[p].update_status = "failed"
                  /\ \A q \in Playlists \ {p} : playlists'[q] = playlists[q]
                  /\ job'[j].pc = "playlists"
                  /\ job'[j].queue = Tail(job[j].queue)
         /\ (job[j].pc = "playlists" /\ job'[j].pc = "idle")
            => job[j].ran = job[j].snapshot]_vars

(* a playlist's track list failed while another playlist of the job was    *)
(* still to be run                                                         *)
C8_Witness ==
    \E j \in Jobs : job[j].last = "list_failed" /\ job[j].queue # <<>>

C10_NewTrackRecord ==
    [][\A j \in Jobs :
         (/\ job[j].pc = "acquire"
          /\ Steps(j)
          /\ \A i \in DOMAIN history : history[i].track_id # job[j].db_track)
         => /\ Len(history') = Len(history) + 1
            /\ SubSeq(history', 1, Len(history)) = history
            /\ LET n == history'[Len(history')]
               IN /\ n.track_id = job[j].db_track /\ n.date = job[j].today_date
                  /\ n.is_new /\ ~n.is_reset /\ ~n.is_imputed
                  /\ n.daily_streams = 0
                  /\ n.total_streams = job'[j].value[1]]_vars

(* a run has recorded a track that had no record: the ledger has no other  *)
(* row of the track                                                        *)
C10_Witness ==
    \E j \in Jobs :
      /\ job[j].last = "recorded"
      /\ \E i \in DOMAIN history :
           /\ history[i].track_id = job[j].db_track /\ history[i].is_new
           /\ \A k \in DOMAIN history : history[k].track_id = job[j].db_track => k = i

---------------------------------------------------------------------------
(* Properties of the reconciliation (SpecReconcile) *)

(* job j takes the step that reconciles and records its current track *)
Recording(j) == job[j].pc = "acquire" /\ Steps(j)

(* the last entry of job j's track before the step: <<>> or <<row>> *)
PrevEntry(j) ==
    LET ids == {i \in DOMAIN history : history[i].track_id = job[j].db_track}
    IN IF ids = {} THEN <<>>
       ELSE <<history[CHOOSE i \in ids : \A k \in ids :
                        \/ history[i].date > history[k].date
                        \/ (history[i].date = history[k].date /\ i <= k)]>>

(* the days between the last entry and the run's date *)
Gap(j) == job[j].today_date - PrevEntry(j)[1].date

(* the count the step acquired, and the count the classification works    *)
(* with: a count of 0 with a last entry stands for the last total         *)
Count(j) == job'[j].value[1]
EffCount(j) ==
    IF Count(j) = 0 /\ PrevEntry(j) # <<>> THEN PrevEntry(j)[1].total_streams ELSE Count(j)

(* the rows the step added, the last of which is today's *)
Added == SubSeq(history', Len(history) + 1, Len(history'))
TodayRow == history'[Len(history')]

IsTodayRow(n, j) == n.date = job[j].today_date /\ n.track_id = job[j].db_track
IsStandard(n) == ~n.is_new /\ ~n.is_reset /\ ~n.is_imputed
IsReset(n) == n.is_reset /\ ~n.is_new /\ ~n.is_imputed
IsImputed(n) == n.is_imputed /\ ~n.is_new /\ ~n.is_reset

(* C11: when the last record is dated the day before today, one record is  *)
(* added, today's: Reset with daily_streams = 0 and the acquired count as  *)
(* total_streams if the count is less than the last total, Standard with   *)
(* daily_streams = count - last total otherwise.                           *)
C11_OneDayGap ==
    [][\A j \in Jobs :
         (Recording(j) /\ PrevEntry(j) # <<>> /\ Gap(j) = 1)
         => LET last == PrevEntry(j)[1]
                n == TodayRow
            IN /\ Len(Added) = 1
               /\ IsTodayRow(n, j)
               /\ IF EffCount(j) < last.total_streams
                  THEN IsReset(n) /\ n.daily_streams = 0 /\ n.total_streams = Count(j)
                  ELSE IsStandard(n) /\ n.total_streams = EffCount(j)
                       /\ n.daily_streams = EffCount(j) - last.total_streams]_vars

(* a Reset has been recorded the day after the last record: it is the     *)
(* track's only row of today and the track has a row of the day before    *)
C11_Witness ==
    \E j \in Jobs :
      /\ job[j].last = "recorded"
      /\ \E i, k \in DOMAIN history :
           /\ history[i].track_id = job[j].db_track /\ history[i].date = job[j].today_date
           /\ history[i].is_reset
           /\ history[k].track_id = job[j].db_track /\ history[k].date = job[j].today_date - 1
           /\ \A m \in DOMAIN history :
                (history[m].track_id = job[j].db_track /\ history[m].date = job[j].today_date)
                  => m = i

(* C12: when the last record is more than one day old and the count is     *)
(* less than the last total, today's record is Reset with daily_streams =  *)
(* 0 and it is the only record added: none for the dates in between.       *)
C12_GapReset ==
    [][\A j \in Jobs :
         (/\ Recording(j) /\ PrevEntry(j) # <<>> /\ Gap(j) > 1
          /\ EffCount(j) < PrevEntry(j)[1].total_streams)
         => /\ Len(Added) = 1
            /\ IsTodayRow(TodayRow, j)
            /\ IsReset(TodayRow) /\ TodayRow.daily_streams = 0
            /\ TodayRow.total_streams = Count(j)]_vars

(* a Reset has been recorded more than one day after the last record *)
C12_Witness ==
    \E j \in Jobs :
      /\ job[j].last = "recorded"
      /\ \E i \in DOMAIN history :
           /\ history[i].is_reset /\ history[i].track_id = job[j].db_track
           /\ \A k \in DOMAIN history :
                history[k].track_id = job[j].db_track => history[k].date # history[i].date - 1

(* C13: when the last record is gap > 1 days old and raw_diff = count -     *)
(* last total >= 0, the added records are: for each i = 1..gap-1 one        *)
(* Imputed record dated last.date + i with total_streams = last total +     *)
(* avg*i and daily_streams = avg, avg = floor(raw_diff / gap), then today's *)
(* record, Imputed with daily_streams = avg and total_streams = count.      *)
C13_GapImputation ==
    [][\A j \in Jobs :
         (/\ Recording(j) /\ PrevEntry(j) # <<>> /\ Gap(j) > 1
          /\ EffCount(j) >= PrevEntry(j)[1].total_streams)
         => LET last == PrevEntry(j)[1]
                avg == (EffCount(j) - last.total_streams) \div Gap(j)
            IN /\ Len(Added) = Gap(j)
               /\ \A i \in 1..(Gap(j) - 1) :
                    /\ Added[i].date = last.date + i
                    /\ Added[i].track_id = job[j].db_track
                    /\ IsImputed(Added[i])
                    /\ Added[i].total_streams = last.total_streams + avg * i
                    /\ Added[i].daily_streams = avg
               /\ IsTodayRow(TodayRow, j)
               /\ IsImputed(TodayRow)
               /\ TodayRow.daily_streams = avg
               /\ TodayRow.total_streams = EffCount(j)]_vars

(* a gap of three days has been filled: two imputed rows with a positive   *)
(* daily_streams and today's                                               *)
C13_Witness ==
    \E j \in Jobs :
      /\ job[j].last = "recorded"
      /\ \E i, k \in DOMAIN history :
           /\ i # k
           /\ history[i].is_imputed /\ history[i].date = job[j].today_date - 1
           /\ history[k].is_imputed /\ history[k].date = job[j].today_date - 2
           /\ history[i].daily_streams > 0

(* the daily_streams of the rows of track t in h dated from..to-1 *)
WindowSum(h, t, from, to) ==
    SumSeq([i \in 1..Len(h) |->
              IF h[i].track_id = t /\ h[i].date >= from /\ h[i].date < to
              THEN h[i].daily_streams ELSE 0])

(* the number of rows of track t in h dated from..to-1 *)
WindowCount(h, t, from, to) ==
    Cardinality({i \in DOMAIN h : h[i].track_id = t /\ h[i].date >= from /\ h[i].date < to})

(* C14: after a gap imputation (gap > 1, raw difference >= 0) the          *)
(* daily_streams of the imputed records and of today's record sum to the   *)
(* raw difference count - last total.                                      *)
C14_ImputationSumsToDifference ==
    [][\A j \in Jobs :
         (/\ Recording(j) /\ PrevEntry(j) # <<>> /\ Gap(j) > 1
          /\ EffCount(j) >= PrevEntry(j)[1].total_streams)
         => SumSeq([i \in 1..Len(Added) |-> Added[i].daily_streams])
              = EffCount(j) - PrevEntry(j)[1].total_streams]_vars

(* C14, amended: after a gap imputation the daily_streams of the imputed   *)
(* records and of today's record sum to gap * floor(raw difference / gap), *)
(* the raw difference less its remainder by the gap.                       *)
C14_ImputationSumsToMultiple ==
    [][\A j \in Jobs :
         (/\ Recording(j) /\ PrevEntry(j) # <<>> /\ Gap(j) > 1
          /\ EffCount(j) >= PrevEntry(j)[1].total_streams)
         => LET raw == EffCount(j) - PrevEntry(j)[1].total_streams
            IN SumSeq([i \in 1..Len(Added) |-> Added[i].daily_streams])
                 = raw - (raw % Gap(j))]_vars

(* a gap has been filled whose length does not divide the raw difference:  *)
(* today's total is more than the last imputed total plus daily_streams    *)
C14_Witness ==
    \E j \in Jobs :
      /\ job[j].last = "recorded"
      /\ \E i, k \in DOMAIN history :
           /\ history[i].track_id = job[j].db_track /\ history[i].date = job[j].today_date
           /\ history[i].is_imputed
           /\ history[k].track_id = job[j].db_track /\ history[k].date = job[j].today_date - 1
           /\ history[k].is_imputed
           /\ history[i].total_streams > history[k].total_streams + history[i].daily_streams

(* C15: when the last record of the track is dated today or later (gap <=  *)
(* 0), the run writes no record for the track and goes on with the next    *)
(* track.                                                                  *)
C15_NonPositiveGapWritesNothing ==
    [][\A j \in Jobs :
         (Recording(j) /\ PrevEntry(j) # <<>> /\ Gap(j) <= 0)
         => /\ history' = history
            /\ job'[j].pc = "track" /\ job'[j].idx = job[j].idx + 1]_vars

(* C16: when the acquired count is 0 and a last record exists, today's     *)
(* record is hidden with the last total as total_streams, and everything   *)
(* is computed from that value: the raw difference is 0, so the record is  *)
(* not Reset, daily_streams is 0, the records of a gap carry the last      *)
(* total and daily_streams 0, and the aggregates are the sums of the       *)
(* stored records of the windows.                                          *)
C16_HiddenCount ==
    [][\A j \in Jobs :
         (Recording(j) /\ PrevEntry(j) # <<>> /\ Count(j) = 0)
         => LET last == PrevEntry(j)[1]
                n == TodayRow
                t == job[j].db_track
                d == job[j].today_date
            IN /\ IsTodayRow(n, j)
               /\ n.is_hidden
               /\ n.total_streams = last.total_streams
               /\ ~n.is_reset /\ ~n.is_new
               /\ n.daily_streams = 0
               /\ n.is_imputed = (Gap(j) > 1)
               /\ \A i \in 1..(Len(Added) - 1) :
                    Added[i].total_streams = last.total_streams /\ Added[i].daily_streams = 0
               /\ n.weekly_streams = WindowSum(history, t, d - 6, d)
               /\ n.monthly_streams = WindowSum(history, t, d - 29, d)]_vars

(* a hidden record has been recorded after a gap, over a ledger whose      *)
(* week has streams                                                        *)
C16_Witness ==
    \E j \in Jobs :
      /\ job[j].last = "recorded" /\ job[j].value[1] = 0
      /\ \E i \in DOMAIN history :
           /\ history[i].track_id = job[j].db_track /\ history[i].date = job[j].today_date
           /\ history[i].is_hidden /\ history[i].is_imputed
           /\ history[i].weekly_streams > 0

(* C17: if fewer than 6 records of the track are in the 6 days before      *)
(* today, today's weekly_streams is 0; if fewer than 29 are in the 29 days *)
(* before today, today's monthly_streams is 0.                             *)
C17_StrictAggregateAvailability ==
    [][\A j \in Jobs : Recording(j) =>
         LET t == job[j].db_track
             d == job[j].today_date
             known == SubSeq(history', 1, Len(history') - 1)
         IN /\ WindowCount(known, t, d - 6, d) < 6 => TodayRow.weekly_streams = 0
            /\ WindowCount(known, t, d - 29, d) < 29 => TodayRow.monthly_streams = 0]_vars

(* C18: if at least 6 records of the track are stored in [today-6, today)  *)
(* when the aggregates are calculated, today's weekly_streams is the sum   *)
(* of their daily_streams plus today's daily_streams; likewise with at     *)
(* least 29 records in [today-29, today) for monthly_streams.              *)
C18_AggregatesAreWindowSums ==
    [][\A j \in Jobs : Recording(j) =>
         LET t == job[j].db_track
             d == job[j].today_date
             n == TodayRow
         IN /\ WindowCount(history, t, d - 6, d) >= 6
                 => n.weekly_streams = WindowSum(history, t, d - 6, d) + n.daily_streams
            /\ WindowCount(history, t, d - 29, d) >= 29
                 => n.monthly_streams = WindowSum(history, t, d - 29, d) + n.daily_streams]_vars

(* a record has been recorded with a positive daily_streams over a ledger  *)
(* with a record for each of the 29 days before, and with older records    *)
C18_Witness ==
    \E j \in Jobs :
      /\ job[j].last = "recorded"
      /\ WindowCount(history, job[j].db_track, job[j].today_date - 29, job[j].today_date) >= 29
      /\ \E i \in DOMAIN history :
           /\ history[i].track_id = job[j].db_track /\ history[i].date < job[j].today_date - 29
      /\ \E i \in DOMAIN history :
           /\ history[i].track_id = job[j].db_track /\ history[i].date = job[j].today_date
           /\ history[i].daily_streams > 0 /\ history[i].monthly_streams > history[i].weekly_streams

(* C19: when a run adds imputed gap records for a track, today's           *)
(* weekly_streams and monthly_streams count them: they are the sums over   *)
(* the windows of the ledger with the imputed records in it.               *)
C19_ImputedRowsInAggregates ==
    [][\A j \in Jobs :
         (Recording(j) /\ Len(Added) > 1)
         => LET t == job[j].db_track
                d == job[j].today_date
                n == TodayRow
                known == SubSeq(history', 1, Len(history') - 1)
            IN /\ n.weekly_streams = WindowSum(known, t, d - 6, d) + n.daily_streams
               /\ n.monthly_streams = WindowSum(known, t, d - 29, d) + n.daily_streams]_vars

(* C20: every ledger record has at most one of is_new, is_reset and        *)
(* is_imputed set.                                                         *)
C20_OneClassification ==
    \A i \in DOMAIN history :
      LET n == history[i]
      IN ~(n.is_new /\ n.is_reset) /\ ~(n.is_new /\ n.is_imputed) /\ ~(n.is_reset /\ n.is_imputed)

(* the runs have written an Imputed record and a Reset record *)
C20_Witness ==
    /\ \E i \in DOMAIN history : history[i].is_imputed /\ history[i].scrape_method # "none"
    /\ \E i \in DOMAIN history : history[i].is_reset
    /\ \E j \in Jobs : job[j].last = "recorded"

(* the rows written by the runs: those that carry a scraping method *)
Written == {i \in DOMAIN history : history[i].scrape_method # "none"}

(* C21: every record of the ledger, written for today or imputed, has      *)
(* daily_streams >= 0.                                                     *)
C21_DailyStreamsNonNegative ==
    \A i \in DOMAIN history : history[i].daily_streams >= 0

(* the runs have written a record with a positive daily_streams, a Reset   *)
(* record (the count went down) and an imputed day                         *)
C21_Witness ==
    /\ \E i \in Written : history[i].daily_streams > 0
    /\ \E i \in Written : history[i].is_reset /\ history[i].daily_streams = 0
    /\ \E i \in DOMAIN history : history[i].is_imputed /\ history[i].scrape_method = "none"

(* C22: for two records of a track dated d and d+1, the record of d+1 has  *)
(* a total_streams not less than that of d unless it is Reset; and if it   *)
(* has less, it is Reset with daily_streams = 0.                           *)
C22_TotalsNonDecreasing ==
    \A i, k \in DOMAIN history :
      (history[i].track_id = history[k].track_id /\ history[k].date = history[i].date + 1)
      => /\ ~history[k].is_reset => history[k].total_streams >= history[i].total_streams
         /\ history[k].total_streams < history[i].total_streams
              => history[k].is_reset /\ history[k].daily_streams = 0

(* C28: the record a run writes for today has is_simulated set exactly     *)
(* when the acquisition method is "simulated" and carries the method, and  *)
(* its confidence_score is set exactly when is_simulated is.               *)
C28_SimulatedFlagAndConfidence ==
    [][\A j \in Jobs : Recording(j) =>
         LET n == TodayRow
             method == job'[j].value[2]
         IN /\ IsTodayRow(n, j)
            /\ n.scrape_method = method
            /\ n.is_simulated = (method = "simulated")
            /\ (n.confidence_score # None) = n.is_simulated
            /\ n.is_simulated => n.confidence_score = job'[j].value[3]]_vars

(* a simulated record with its confidence and a record of a scraped count  *)
(* without one have been written                                           *)
C28_Witness ==
    /\ \E i \in Written : /\ history[i].scrape_method = "simulated" /\ history[i].is_simulated
                            /\ history[i].confidence_score > 0
    /\ \E i \in Written : /\ history[i].scrape_method \in {"requests", "selenium", "failed"}
                            /\ ~history[i].is_simulated
                            /\ history[i].confidence_score = None

(* C35: the record a run writes for today is hidden exactly when the       *)
(* acquisition method is "failed", and no imputed record it adds is        *)
(* hidden.                                                                 *)
C35_HiddenIffFailed ==
    [][\A j \in Jobs : Recording(j) =>
         /\ TodayRow.is_hidden = (job'[j].value[2] = "failed")
         /\ \A i \in 1..(Len(Added) - 1) : Added[i].is_imputed /\ ~Added[i].is_hidden]_vars

(* a failed acquisition after a gap has been recorded: today's record is   *)
(* hidden, the imputed day before it is not                                *)
C35_Witness ==
    \E i, k \in DOMAIN history :
      /\ history[i].scrape_method = "failed" /\ history[i].is_hidden
      /\ history[k].track_id = history[i].track_id /\ history[k].date = history[i].date - 1
      /\ history[k].is_imputed /\ history[k].scrape_method = "none" /\ ~history[k].is_hidden

(* C36: no record of the ledger is both hidden and Reset.                  *)
C36_HiddenNeverReset ==
    \A i \in DOMAIN history : ~(history[i].is_hidden /\ history[i].is_reset)

(* a hidden record has been written for a track with a last record, whose  *)
(* total it carries, in a ledger that also holds a Reset record            *)
C36_Witness ==
    \E i, k \in DOMAIN history :
      /\ k < i /\ history[k].track_id = history[i].track_id
      /\ history[i].is_hidden /\ ~history[i].is_new
      /\ history[i].total_streams = history[k].total_streams /\ history[k].total_streams > 0
      /\ \E m \in DOMAIN history : history[m].is_reset

(* C39: a failed acquisition for a track without a record adds a record    *)
(* for today that is New and hidden with total_streams = 0 and             *)
(* daily_streams = 0; and a record with total_streams = 0 is added only    *)
(* then, or for a track that had a record with total_streams = 0.          *)
C39_ZeroTotalOnlyForNewFailed ==
    [][\A j \in Jobs : Recording(j) =>
         LET first_failed == PrevEntry(j) = <<>> /\ job'[j].value[2] = "failed"
             had_zero == \E i \in DOMAIN history :
                           history[i].track_id = job[j].db_track /\ history[i].total_streams = 0
         IN /\ first_failed
                 => /\ Len(Added) = 1 /\ IsTodayRow(TodayRow, j)
                    /\ TodayRow.is_new /\ TodayRow.is_hidden
                    /\ TodayRow.total_streams = 0 /\ TodayRow.daily_streams = 0
            /\ \A i \in DOMAIN Added :
                 Added[i].total_streams = 0 => (first_failed \/ had_zero)]_vars

(* the first record of a track has been written after a failed             *)
(* acquisition, and a failed acquisition for a track with records has been *)
(* written with their last total                                           *)
C39_Witness ==
    \E j \in Jobs :
      /\ job[j].last = "recorded" /\ job[j].value[2] = "failed"
      /\ \E i \in DOMAIN history :
           /\ history[i].track_id = job[j].db_track /\ history[i].is_new
           /\ history[i].total_streams = 0 /\ history[i].is_hidden
           /\ \A k \in DOMAIN history : history[k].track_id = job[j].db_track => k >= i

---------------------------------------------------------------------------
(* Properties of the acquisition (Spec) *)

(* the window that is current when the browser tier of job j's acquisition *)
(* starts: the one of the driver it has, or of the driver it sets up       *)
OriginalWindow(j) ==
    IF job[j].tracker.driver.set THEN job[j].tracker.driver.current ELSE NewDriver.current

(* C24: when an acquisition that opened a browser tab ends, the original   *)
(* window is open, is the current window and is the only open window,      *)
(* whatever happened in the attempts.                                      *)
C24_OriginalWindowRestored ==
    \A j \in Jobs : job[j].pc = "acquire" =>
      \A env \in Envs :
        LET r == Acquire(j, env)
        IN r.log.tabs > 0
             => /\ r.tr.driver.windows = {OriginalWindow(j)}
                /\ r.tr.driver.current = OriginalWindow(j)

(* C25: an acquisition issues at most 3 HTTP requests, opens at most 2     *)
(* browser tabs and ends with a result (it returns), whatever the network  *)
(* and the browser do.                                                     *)
C25_BoundedAndReturns ==
    \A j \in Jobs : job[j].pc = "acquire" =>
      \A env \in Envs :
        LET r == Acquire(j, env)
        IN r.log.http <= 3 /\ r.log.tabs <= 2 /\ ~r.exc

(* the track of job j has a record that is not simulated *)
HasRealRecord(j) ==
    \E i \in DOMAIN history : history[i].track_id = job[j].db_track /\ ~history[i].is_simulated

(* C26: when both scraping tiers fail, the acquisition returns method      *)
(* "simulated" with an estimate if the track has a record that is not      *)
(* simulated, and method "failed" only if it has none.                     *)
C26_EstimateFailsOnlyWithoutHistory ==
    \A j \in Jobs : job[j].pc = "acquire" =>
      \A env \in Envs :
        LET r == Acquire(j, env)
        IN (~r.log.fastOk /\ ~r.log.browserOk)
             => /\ ~r.exc
                /\ HasRealRecord(j) => (r.value[2] = "simulated" /\ r.value[1] > 0)
                /\ ~HasRealRecord(j) => r.value[2] = "failed"

---------------------------------------------------------------------------
(* Properties of the ledger under runs and deletions (SpecLedger) *)

(* the rows of h that do not belong to a track of playlist p *)
RowsOutside(h, p) ==
    SelectSeq(h, LAMBDA r : tracks[r.track_id].playlist_id # p)

(* C23: a step of a run leaves every record of the ledger as it is and in  *)
(* its place: it only adds records after them.  A step that is not one of  *)
(* a run changes the ledger only by deleting a playlist, and then exactly  *)
(* the records of the tracks of that playlist go, with those tracks.       *)
C23_RunsOnlyInsert ==
    [][/\ (\E j \in Jobs : Steps(j))
           => /\ Len(history') >= Len(history)
              /\ SubSeq(history', 1, Len(history)) = history
       /\ (\A j \in Jobs : ~Steps(j)) /\ history' # history
           => \E p \in Playlists :
                /\ Exists(p) /\ playlists'[p] = DeletedPlaylist
                /\ history' = RowsOutside(history, p)
                /\ \A t \in DOMAIN tracks :
                     tracks[t].playlist_id = p => tracks'[t] = DeletedTrack]_vars

(* a run has recorded its track, then its playlist has been deleted: the   *)
(* track has no record left, and the record of the other playlist's track  *)
(* is still there                                                          *)
C23_Witness ==
    /\ \E j \in Jobs : /\ job[j].last = "recorded" /\ ~Exists(job[j].playlist)
                       /\ \A i \in DOMAIN history : history[i].track_id # job[j].db_track
    /\ \E i \in DOMAIN history : history[i].track_id = 2 /\ Exists(2)

(* the four counters of the statistics *)
StatKeys == {"requests_success", "selenium_success", "simulated", "failed"}

(* the counter that goes with a method *)
StatOf(method) == IF method \in {"requests", "selenium"} THEN method \o "_success" ELSE method

(* C32: an acquisition returns, and the tracker of the run has the four    *)
(* counters, of which the acquisition has incremented by one the counter   *)
(* of the method it returns and no other.                                  *)
C32_OneCounterPerAcquisition ==
    \A j \in Jobs : job[j].pc = "acquire" =>
      \A env \in Envs :
        LET r == Acquire(j, env)
        IN /\ ~r.exc
           /\ HasAttr(job[j].tracker, "scrape_stats") /\ HasAttr(r.tr, "scrape_stats")
           /\ \A key \in StatKeys :
                r.tr.scrape_stats[key] = job[j].tracker.scrape_stats[key]
                                           + (IF key = StatOf(r.value[2]) THEN 1 ELSE 0)

(* job j takes the step in which its run_and_save ends *)
RunEnds(j) == Steps(j) /\ job[j].pc # "idle" /\ job'[j].pc = "playlists"

(* the playlist of the run that ends *)
EndingPlaylist(j) == IF job[j].pc = "playlists" THEN Head(job[j].queue) ELSE job[j].playlist

(* C33: when run_and_save ends, the playlist's update_status is completed  *)
(* if it returned and failed if it raised, never updating; a run that      *)
(* returns has set last_successful_update, and the step in which a run     *)
(* raises leaves last_successful_update as it was.                         *)
C33_StatusAtRunEnd ==
    [][\A j \in Jobs : RunEnds(j) =>
         LET p == EndingPlaylist(j)
             returned == job'[j].last = "returned"
         IN /\ playlists'[p].update_status = (IF returned THEN "completed" ELSE "failed")
            /\ returned => playlists'[p].last_successful_update = today
            /\ ~returned => playlists'[p].last_successful_update
                               = playlists[p].last_successful_update]_vars

(* the tracker has a browser that was started and not quit *)
BrowserOpen(tr) == tr.driver.set /\ ~tr.driver.quit

(* C34: a job that is not inside a run_and_save has no browser open; and   *)
(* an acquisition starts a browser only if its Fast Fetch gave no          *)
(* plausible count.                                                        *)
C34_DriverQuitAndLazy ==
    \A j \in Jobs :
      /\ job[j].pc \in {"idle", "playlists"} => ~BrowserOpen(job[j].tracker)
      /\ job[j].pc = "acquire" =>
           \A env \in Envs :
             (~job[j].tracker.driver.set /\ Acquire(j, env).tr.driver.set)
               => ~FastPlausible(env)

---------------------------------------------------------------------------
(* Properties of the historical estimate (SpecEstimate) *)

(* the records of track t that are not simulated, and the place of each    *)
(* among them, 1 for the most recent                                       *)
Real(t) == {i \in DOMAIN history : history[i].track_id = t /\ ~history[i].is_simulated}
Place(t, i) == Cardinality({k \in Real(t) : history[k].date > history[i].date}) + 1
RowAt(t, n) == history[CHOOSE i \in Real(t) : Place(t, i) = n]

(* how many of them the estimate reads *)
ReadCount(t) == IF Cardinality(Real(t)) > 7 THEN 7 ELSE Cardinality(Real(t))

(* the day-over-day differences among the records read, most recent first, *)
(* with 0 in the place of those that are not positive                      *)
PositiveDiffs(t) ==
    [n \in 1..(ReadCount(t) - 1) |->
       LET d == RowAt(t, n).total_streams - RowAt(t, n + 1).total_streams
       IN IF d > 0 THEN d ELSE 0]
PositiveCount(t) == Cardinality({n \in DOMAIN PositiveDiffs(t) : PositiveDiffs(t)[n] > 0})

(* C27: the estimate of a track is made from its records that are not      *)
(* simulated, the 7 most recent at most.  With fewer than 2 of them, or    *)
(* with no positive difference between successive ones, it is the total of *)
(* the most recent, unchanged (None without any); otherwise it is that     *)
(* total plus the integer part of (average of the positive differences)    *)
(* times (days from that record to today, 1 if that is not positive).      *)
C27_EstimateFromHistory ==
    \A j \in Jobs : job[j].pc = "estimated" =>
      LET t == job[j].db_track
          estimate == job[j].value[1]
          days == IF today - RowAt(t, 1).date <= 0 THEN 1 ELSE today - RowAt(t, 1).date
      IN IF Real(t) = {} THEN estimate = None
         ELSE IF ReadCount(t) < 2 \/ PositiveCount(t) = 0
         THEN estimate = RowAt(t, 1).total_streams
         ELSE estimate = RowAt(t, 1).total_streams
                           + (SumSeq(PositiveDiffs(t)) * days) \div PositiveCount(t)

(* an estimate has been made for a track with more than 7 records and a    *)
(* simulated one, some of whose differences are not positive, three days   *)
(* after its last record, and the average did not divide evenly            *)
C27_Witness ==
    \E j \in Jobs :
      LET t == job[j].db_track
      IN /\ job[j].pc = "estimated"
         /\ Cardinality(Real(t)) > 7
         /\ \E i \in DOMAIN history : history[i].track_id = t /\ history[i].is_simulated
         /\ PositiveCount(t) < ReadCount(t) - 1
         /\ today - RowAt(t, 1).date = 3
         /\ (SumSeq(PositiveDiffs(t)) * 3) % PositiveCount(t) # 0
         /\ job[j].value[1] > RowAt(t, 1).total_streams

(* C37: an estimate that is returned is not less than the total of the     *)
(* most recent record of the track that is not simulated.                  *)
C37_EstimateNotBelowLastKnown ==
    \A j \in Jobs :
      (job[j].pc = "estimated" /\ job[j].value[1] # None)
        => job[j].value[1] >= RowAt(job[j].db_track, 1).total_streams

(* an estimate above the last total has been made for a track whose total  *)
(* went down between two of the records read                               *)
C37_Witness ==
    \E j \in Jobs :
      LET t == job[j].db_track
      IN /\ job[j].pc = "estimated" /\ job[j].value[1] # None
         /\ \E n \in 1..(ReadCount(t) - 1) :
              RowAt(t, n).total_streams < RowAt(t, n + 1).total_streams
         /\ job[j].value[1] > RowAt(t, 1).total_streams

---------------------------------------------------------------------------
(* Properties of the parser and its filter (SpecParse) *)

(* 1,000 <= c <= 10,000,000,000 *)
InRange(c) ==
    /\ ~c.isNone
    /\ c.k >= 1
    /\ c.k < 10000000 \/ (c.k = 10000000 /\ c.u = 0)

Cleaned(text) == SelectSeq(RStrip(LStrip(text)), LAMBDA c : c # ",")
SuffixOf(text) ==
    LET t == Cleaned(text)
    IN IF t # <<>> /\ t[Len(t)] \in {"k", "K", "m", "M", "b", "B"} THEN t[Len(t)] ELSE ""
LiteralOf(text) ==
    LET t == Cleaned(text)
    IN IF SuffixOf(text) = "" THEN t ELSE SubSeq(t, 1, Len(t) - 1)
IsLiteral(s) ==
    /\ \A i \in DOMAIN s : s[i] \in Digits \/ s[i] = "."
    /\ \E i \in DOMAIN s : s[i] \in Digits
    /\ Cardinality({i \in DOMAIN s : s[i] = "."}) <= 1
ExponentOf(text) ==
    CASE SuffixOf(text) \in {"k", "K"} -> 3 [] SuffixOf(text) \in {"m", "M"} -> 6
      [] SuffixOf(text) \in {"b", "B"} -> 9 [] OTHER -> 0

(* C30: _extract_stream_count_helper never raises; for a text without a    *)
(* digit it returns None; for a numeric literal, with thousands separators *)
(* and whitespace around it or not, it returns the literal, and with a     *)
(* suffix k, m or b of either case the literal times 10^3, 10^6 or 10^9,   *)
(* truncated to an integer ("1.2M" gives 1,200,000, "2.01K" 2,010).        *)
C30_ParsesLiteralWithSuffix ==
    \A j \in Jobs : job[j].last = "parsed" =>
      LET text == job[j].text
      IN /\ job[j].pc # "raised"
         /\ (\A i \in DOMAIN text : text[i] \notin Digits) => job[j].streams = NoCount
         /\ IsLiteral(LiteralOf(text))
              => job[j].streams = Scaled(DigitsValue(LiteralOf(text)),
                                         Decimals(LiteralOf(text)), ExponentOf(text))

(* the literal with digits n and f decimals, rounded to the nearest        *)
(* integer, a half going up                                                *)
Nearest(n, f) == (2 * n + Pow10(f)) \div (2 * Pow10(f))

(* C31: for a numeric literal without a suffix the parser returns the      *)
(* literal rounded to the nearest integer ("12.7" gives 13).               *)
C31_NoSuffixRoundsToNearest ==
    \A j \in Jobs :
      (/\ job[j].last = "parsed"
       /\ IsLiteral(LiteralOf(job[j].text)) /\ SuffixOf(job[j].text) = "")
      => job[j].streams = WideCount(Nearest(DigitsValue(LiteralOf(job[j].text)),
                                            Decimals(LiteralOf(job[j].text))))

---------------------------------------------------------------------------
(* Properties of the Track rows under runs one after another (SpecSerial) *)

(* the Track rows of spotify_id in playlist p *)
TrackRows(spotify_id, p) ==
    {t \in DOMAIN tracks : tracks[t].spotify_id = spotify_id /\ tracks[t].playlist_id = p}

(* the records of track t in ledger h, in their order *)
OwnRows(h, t) == SelectSeq(h, LAMBDA r : r.track_id = t)

(* the records a run adds for track t with value v on date d when the      *)
(* ledger holds the records of t only                                      *)
AddedAlone(t, v, d) ==
    LET own == OwnRows(history, t)
        after == RecordRows(own, t, v, d)
    IN SubSeq(after, Len(own) + 1, Len(after))

(* C38: with runs that do not overlap, no two Track rows have the same     *)
(* spotify_id and playlist, and no two records the same track and date.    *)
(* A listed track that has a Track row in the playlist of the run is       *)
(* processed with that row and no row is created; one that has none gets a *)
(* new row in that playlist, whatever rows other playlists have for its    *)
(* spotify_id.  A run adds records for a track only if the track has no    *)
(* record of the run's date, and the records it adds are those it would    *)
(* add if the ledger held the records of that track only.                  *)
C38_OneTrackPerPlaylist ==
    /\ [](/\ \A t, u \in DOMAIN tracks :
              (tracks[t].spotify_id = tracks[u].spotify_id
                 /\ tracks[t].playlist_id = tracks[u].playlist_id) => t = u
          /\ RowKeysUnique(history)
          /\ \A j \in Jobs : job[j].pc = "acquire" =>
                tracks[job[j].db_track] = Track(job[j].api_tracks[job[j].idx], job[j].playlist))
    /\ [][\A j \in Jobs :
            /\ (Steps(j) /\ job[j].pc = "track" /\ job[j].idx <= Len(job[j].api_tracks))
                 => LET known == TrackRows(job[j].api_tracks[job[j].idx], job[j].playlist)
                    IN IF known # {}
                       THEN tracks' = tracks /\ job'[j].db_track \in known
                       ELSE /\ tracks' = Append(tracks, Track(job[j].api_tracks[job[j].idx],
                                                               job[j].playlist))
                            /\ job'[j].db_track = Len(tracks')
            /\ Recording(j)
                 => /\ ~existing_today(history, job[j].db_track, job[j].today_date)
                    /\ Added = AddedAlone(job[j].db_track, job'[j].value, job[j].today_date)]_vars

(* spotify_id "a" has a Track row in each playlist, with records of the    *)
(* same date and different totals; and a run that was the first of its     *)
(* playlist, with "a" listed twice, has skipped the second after recording *)
(* the first                                                               *)
C38_Witness ==
    /\ \E t \in TrackRows("a", 1), u \in TrackRows("a", 2), i, k \in DOMAIN history :
         /\ history[i].track_id = t /\ history[k].track_id = u
         /\ history[i].date = history[k].date
         /\ history[i].total_streams # history[k].total_streams
    /\ \E j \in Jobs :
         /\ job[j].api_tracks = <<"a", "a">> /\ job[j].idx = 3 /\ job[j].last = "skipped"
         /\ Len(job[j].queue) = 2
         /\ \A k \in Jobs \ {j} : job[j].playlist \notin job[k].ran
         /\ Len(OwnRows(history, job[j].db_track)) = 1

=============================================================================
